---- MODULE Spec2Model ----
(***************************************************************************)
(* vite-mode-logging: the build-time transform of modeBasedLoggingPlugin   *)
(* (the Call Rewriter) and ensureModeFunction (the Mode Registry), with    *)
(* the scaffolding that first writes src/debug.ts.                         *)
(*                                                                         *)
(* Source text is a sequence of one-character strings, so that the regular *)
(* expressions of the code are modelled character by character.  The       *)
(* declarations artifact src/debug.ts is a sequence of lexical tokens (see *)
(* the registry section).                                                  *)
(***************************************************************************)
EXTENDS Naturals, Sequences, FiniteSets

VARIABLES
    artifact,   \* content of src/debug.ts (a token sequence), or Absent
    plugin,     \* NoPlugin, or the closure returned by modeBasedLoggingPlugin
    code,       \* text of the source file handed to the transform hook
    keys,       \* number of fragments typed into code so far
    phase,      \* "edit": code is being written; "done": the hook has run on it
    fileId,     \* id the hook was called with (NoId before the call)
    ret,        \* what the hook returned: NoValue, or [code |-> text]
    calls,      \* number of modeBasedLoggingPlugin calls so far
    last,       \* the last registry call and its outcome (observation only)
    passed,     \* upper-cased modes of the calls that returned (observation only)
    invocations \* per build process: its ensureModeFunction call in progress

vars == <<artifact, plugin, code, keys, phase, fileId, ret, calls, last, passed,
          invocations>>

(***************************************************************************)
(* Bounds of the model.                                                    *)
(***************************************************************************)
\* number of fragments (a name or a single character) typed into a source text
MaxKeys == 6
\* number of registry calls (plugin constructions) in one behaviour
MaxCalls == 3

(***************************************************************************)
(* Characters and String helpers.                                          *)
(***************************************************************************)
UpperLetters ==
    <<"A", "B", "C", "D", "E", "F", "G", "H", "I", "J", "K", "L", "M",
      "N", "O", "P", "Q", "R", "S", "T", "U", "V", "W", "X", "Y", "Z">>

LowerLetters ==
    <<"a", "b", "c", "d", "e", "f", "g", "h", "i", "j", "k", "l", "m",
      "n", "o", "p", "q", "r", "s", "t", "u", "v", "w", "x", "y", "z">>

Digits == {"0", "1", "2", "3", "4", "5", "6", "7", "8", "9"}

Range(s) == {s[i] : i \in DOMAIN s}

\* [A-Z]
IsUpper(c) == c \in Range(UpperLetters)

\* [A-Z0-9_]
IsNameChar(c) == IsUpper(c) \/ c \in Digits \/ c = "_"

\* \w, the class that decides \b
IsWordChar(c) == IsNameChar(c) \/ c \in Range(LowerLetters)

\* \s
IsSpace(c) == c \in {" ", "\n", "\t"}

\* String.prototype.toUpperCase, one character
UpperChar(c) ==
    IF \E i \in DOMAIN LowerLetters : LowerLetters[i] = c
    THEN UpperLetters[CHOOSE i \in DOMAIN LowerLetters : LowerLetters[i] = c]
    ELSE c

\* String.prototype.toUpperCase
ToUpperCase(s) == [i \in DOMAIN s |-> UpperChar(s[i])]

\* String.prototype.endsWith
EndsWith(s, suffix) ==
    /\ Len(s) >= Len(suffix)
    /\ SubSeq(s, Len(s) - Len(suffix) + 1, Len(s)) = suffix

\* String.prototype.includes
Includes(s, part) ==
    \E i \in 1..(Len(s) + 1) :
        /\ i + Len(part) - 1 <= Len(s)
        /\ SubSeq(s, i, i + Len(part) - 1) = part

\* [A-Z0-9_]* from index i: the first index the greedy run does not take
RECURSIVE NameRunEnd(_, _)
NameRunEnd(s, i) ==
    IF i > Len(s) THEN Len(s) + 1
    ELSE IF IsNameChar(s[i]) THEN NameRunEnd(s, i + 1)
    ELSE i

\* \s* from index i: the first index the greedy run does not take
RECURSIVE SpaceRunEnd(_, _)
SpaceRunEnd(s, i) ==
    IF i > Len(s) THEN Len(s) + 1
    ELSE IF IsSpace(s[i]) THEN SpaceRunEnd(s, i + 1)
    ELSE i

\* index of the first c at or after i, 0 when there is none
RECURSIVE IndexFrom(_, _, _)
IndexFrom(s, c, i) ==
    IF i > Len(s) THEN 0
    ELSE IF s[i] = c THEN i
    ELSE IndexFrom(s, c, i + 1)

(***************************************************************************)
(* The Call Rewriter: the transform hook of modeBasedLoggingPlugin.        *)
(***************************************************************************)
NoValue == [none |-> TRUE]
NoMatch == [ok |-> FALSE]

ConsoleLogOpen == <<"c", "o", "n", "s", "o", "l", "e", ".", "l", "o", "g", "(">>
AllName == <<"A", "L", "L">>

\* ((?:[^)(]|\([^)]*\))*)\)  from index j, the character after the opening
\* parenthesis: the index of the parenthesis that closes the match, 0 when
\* the pattern fails.  A character other than a parenthesis is consumed; an
\* opening parenthesis is consumed with everything up to the next closing
\* one ([^)]* also takes opening parentheses); the star stops at a closing one.
RECURSIVE ArgsWalk(_, _)
ArgsWalk(s, j) ==
    IF j > Len(s) THEN 0
    ELSE IF s[j] = ")" THEN j
    ELSE IF s[j] = "("
         THEN LET k == IndexFrom(s, ")", j + 1)
              IN  IF k = 0 THEN 0 ELSE ArgsWalk(s, k + 1)
    ELSE ArgsWalk(s, j + 1)

\* allModesRegex as it would be with the i flag the registry's patterns carry:
\* a name may then start with, and contain, lower-case letters
AllModesRegexAtIgnoreCase(s, i) ==
    IF ~(IsUpper(s[i]) \/ s[i] \in Range(LowerLetters))
           \/ (i > 1 /\ IsWordChar(s[i - 1]))
    THEN NoMatch
    ELSE LET nameEnd == CHOOSE j \in (i + 1)..(Len(s) + 1) :
                            /\ j = Len(s) + 1 \/ ~IsWordChar(s[j])
                            /\ \A k \in (i + 1)..(j - 1) : IsWordChar(s[k])
             open    == SpaceRunEnd(s, nameEnd)
         IN  IF open > Len(s) \/ s[open] # "("
             THEN NoMatch
             ELSE LET close == ArgsWalk(s, open + 1)
                  IN  IF close = 0
                      THEN NoMatch
                      ELSE [ok       |-> TRUE,
                            from     |-> i,
                            to       |-> close,
                            modeName |-> SubSeq(s, i, nameEnd - 1),
                            args     |-> SubSeq(s, open + 1, close - 1)]

\* allModesRegex anchored at index i:
\*   \b([A-Z][A-Z0-9_]*)\s*\(((?:[^)(]|\([^)]*\))*)\)
AllModesRegexAt(s, i) ==
    IF ~IsUpper(s[i]) \/ (i > 1 /\ IsWordChar(s[i - 1]))
    THEN NoMatch
    ELSE LET nameEnd == NameRunEnd(s, i + 1)
             open    == SpaceRunEnd(s, nameEnd)
         IN  IF open > Len(s) \/ s[open] # "("
             THEN NoMatch
             ELSE LET close == ArgsWalk(s, open + 1)
                  IN  IF close = 0
                      THEN NoMatch
                      ELSE [ok       |-> TRUE,
                            from     |-> i,
                            to       |-> close,
                            modeName |-> SubSeq(s, i, nameEnd - 1),
                            args     |-> SubSeq(s, open + 1, close - 1)]

\* the callback given to code.replace
ReplaceCallback(modeName, args, currentModeUpper) ==
    IF modeName = AllName
    THEN ConsoleLogOpen \o args \o <<")">>
    ELSE IF modeName = currentModeUpper
         THEN ConsoleLogOpen \o args \o <<")">>
         ELSE <<>>

\* the matches of the global regex, left to right: the scan resumes after the
\* end of each match, and one character further on where nothing matches
RECURSIVE Matches(_, _)
Matches(s, i) ==
    IF i > Len(s) THEN <<>>
    ELSE LET m == AllModesRegexAt(s, i)
         IN  IF m.ok THEN <<m>> \o Matches(s, m.to + 1)
                     ELSE Matches(s, i + 1)

\* a replace that removes a deleted call together with the character after
\* it (the statement terminator)
RECURSIVE ReplaceFromWithTerminator(_, _, _)
ReplaceFromWithTerminator(s, i, currentModeUpper) ==
    IF i > Len(s) THEN <<>>
    ELSE LET m == AllModesRegexAt(s, i)
         IN  IF m.ok
             THEN LET text == ReplaceCallback(m.modeName, m.args, currentModeUpper)
                  IN  text \o ReplaceFromWithTerminator(
                                  s, IF text = <<>> THEN m.to + 2 ELSE m.to + 1,
                                  currentModeUpper)
             ELSE <<s[i]>> \o ReplaceFromWithTerminator(s, i + 1, currentModeUpper)

\* code.replace(allModesRegex, callback) from index i on
RECURSIVE ReplaceFrom(_, _, _)
ReplaceFrom(s, i, currentModeUpper) ==
    IF i > Len(s) THEN <<>>
    ELSE LET m == AllModesRegexAt(s, i)
         IN  IF m.ok
             THEN ReplaceCallback(m.modeName, m.args, currentModeUpper)
                      \o ReplaceFrom(s, m.to + 1, currentModeUpper)
             ELSE <<s[i]>> \o ReplaceFrom(s, i + 1, currentModeUpper)

ExtTs  == <<".", "t", "s">>
ExtTsx == <<".", "t", "s", "x">>
ExtJs  == <<".", "j", "s">>
ExtJsx == <<".", "j", "s", "x">>
DebugTs == <<"d", "e", "b", "u", "g", ".", "t", "s">>

\* /\.(tsx?|jsx?)$/.test(id)
HasSourceExtension(id) ==
    \/ EndsWith(id, ExtTs) \/ EndsWith(id, ExtTsx)
    \/ EndsWith(id, ExtJs) \/ EndsWith(id, ExtJsx)

\* the two early returns of the hook
IsProcessed(id) == HasSourceExtension(id) /\ ~Includes(id, DebugTs)

\* a hook that returns the result of replace without comparing it with the
\* source
TransformWithoutComparison(src, id, mode) ==
    IF ~IsProcessed(id)
    THEN NoValue
    ELSE [code |-> ReplaceFrom(src, 1, ToUpperCase(mode))]

\* transform(code, id) of the plugin created for mode
Transform(src, id, mode) ==
    IF ~IsProcessed(id)
    THEN NoValue
    ELSE LET currentModeUpper == ToUpperCase(mode)
             transformed == ReplaceFrom(src, 1, currentModeUpper)
         IN  IF transformed # src THEN [code |-> transformed] ELSE NoValue

(***************************************************************************)
(* The Mode Registry: src/debug.ts and ensureModeFunction.                 *)
(*                                                                         *)
(* The artifact is a sequence of lexical tokens.  A token is a record      *)
(* [k, n]: k is the literal text of a fixed piece of the file and n is     *)
(* empty, or k = "id" and n is an identifier, kept character by character  *)
(* so that toUpperCase and the case-insensitive test act on its letters.   *)
(* No token other than "}" contains the character "}", so [^}]* of the     *)
(* block pattern is a run of tokens that ends at the next "}" token.       *)
(***************************************************************************)
Absent == <<[k |-> "ENOENT", n |-> <<>>]>>

Tok(text) == [k |-> text, n |-> <<>>]
Ident(name) == [k |-> "id", n |-> name]

Comment1 == Tok("// Mode-based logging helper functions that will be transformed by the build process")
Comment2 == Tok("// These functions are declared globally and can be used anywhere without imports")
Comment3 == Tok("// Make the functions available at runtime (though they'll be transformed)")
ModuleComment == Tok(" // Make this a module")
DeclareGlobal == Tok("declare global {")
CloseBrace == Tok("}")
Function == Tok("function")
Declare == Tok("declare")
Space1 == Tok(" ")
Indent == Tok("  ")
NL == Tok("\n")
OpenParen == Tok("(")
Signature == Tok("message: string): void;")
GlobalThis == Tok("(globalThis as any).")
NoOpBody == Tok(" = function(_message: string) { /* no-op */ ")
Semicolon == Tok(";")
ExportOpen == Tok("export {")

\* \s on tokens
IsWhite(t) == t \in {Space1, Indent, NL}

\* \s* on tokens from index i: the first index the greedy run does not take
RECURSIVE WhiteRunEnd(_, _)
WhiteRunEnd(content, i) ==
    IF i > Len(content) THEN Len(content) + 1
    ELSE IF IsWhite(content[i]) THEN WhiteRunEnd(content, i + 1)
    ELSE i

\* 'export {};'
ExportMarker == <<ExportOpen, CloseBrace, Semicolon>>

\* `  function ${functionName}(message: string): void;` and the line break after it
DeclText(functionName) ==
    <<Indent, Function, Space1, Ident(functionName), OpenParen, Signature>>

DeclLine(functionName) == DeclText(functionName) \o <<NL>>

\* `(globalThis as any).${functionName} = function(_message: string) { /* no-op */ };`
StubText(functionName) ==
    <<GlobalThis, Ident(functionName), NoOpBody, CloseBrace, Semicolon>>

\* runtimeImpl
RuntimeImpl(functionName) == StubText(functionName) \o <<NL>>

\* the base structure ensureModeFunction starts from when the file cannot be read
BaseContent ==
    <<Comment1, NL, Comment2, NL, NL, DeclareGlobal, NL>>
        \o DeclLine(AllName)
        \o <<CloseBrace, NL, NL, Comment3, NL>>
        \o RuntimeImpl(AllName)
        \o <<NL>> \o ExportMarker \o <<ModuleComment, NL>>

\* new RegExp(`function\\s+${functionName}\\s*\\(`, 'i') matching at token i
DeclRegexAt(content, i, functionName) ==
    /\ content[i] = Function
    /\ LET nameAt == WhiteRunEnd(content, i + 1)
       IN  /\ nameAt > i + 1
           /\ nameAt <= Len(content)
           /\ content[nameAt].k = "id"
           /\ ToUpperCase(content[nameAt].n) = ToUpperCase(functionName)
           /\ LET open == WhiteRunEnd(content, nameAt + 1)
              IN  open <= Len(content) /\ content[open] = OpenParen

\* globalDeclRegex.test(content) and allGlobalRegex.test(content)
DeclRegexTest(content, functionName) ==
    \E i \in DOMAIN content : DeclRegexAt(content, i, functionName)

\* index of the "}" that /(declare global \{[^}]*)(})/s captures as $2, 0 when
\* the pattern does not match
GlobalBlockClose(content) ==
    LET open == IndexFrom(content, DeclareGlobal, 1)
    IN  IF open = 0 THEN 0 ELSE IndexFrom(content, CloseBrace, open + 1)

\* content.lastIndexOf('export {};'), 0 when there is none
LastExportIndex(content) ==
    LET hits == {i \in DOMAIN content :
                    /\ i + 2 <= Len(content)
                    /\ SubSeq(content, i, i + 2) = ExportMarker}
    IN  IF hits = {} THEN 0
        ELSE CHOOSE i \in hits : \A j \in hits : j <= i

InsertBefore(content, i, text) ==
    SubSeq(content, 1, i - 1) \o text \o SubSeq(content, i, Len(content))

\* lines 56-68: the declaration of the requested mode
AddDeclaration(content, functionName) ==
    LET close == GlobalBlockClose(content)
    IN  IF close # 0
        THEN InsertBefore(content, close, DeclLine(functionName))
        ELSE <<NL, DeclareGlobal, NL>> \o DeclLine(functionName)
                 \o <<CloseBrace, NL>> \o content

\* lines 70-77: the runtime stub of the requested mode
AddRuntimeImpl(content, functionName) ==
    LET exportIndex == LastExportIndex(content)
    IN  IF exportIndex # 0
        THEN InsertBefore(content, exportIndex, RuntimeImpl(functionName))
        ELSE content \o RuntimeImpl(functionName) \o <<NL>> \o ExportMarker \o <<NL>>

\* lines 87-90: the declaration of ALL
AddAllDeclaration(content) ==
    LET close == GlobalBlockClose(content)
    IN  IF close # 0
        THEN InsertBefore(content, close, DeclLine(AllName))
        ELSE content

\* lines 92-96: the runtime stub of ALL
AddAllRuntimeImpl(content) ==
    LET exportIndex == LastExportIndex(content)
    IN  IF exportIndex # 0
        THEN InsertBefore(content, exportIndex, RuntimeImpl(AllName))
        ELSE content

\* fs.writeFileSync(debugFilePath, content): writeOk is the environment's
\* answer (permission, missing directory); a failed write leaves the file alone
WriteFileSync(stored, content, writeOk) ==
    IF writeOk THEN [stored |-> content, threw |-> FALSE]
               ELSE [stored |-> stored, threw |-> TRUE]

\* lines 83-100, run on the content left by the first half; stored is the file
EnsureAll(stored, content, writeOk) ==
    IF DeclRegexTest(content, AllName)
    THEN [stored |-> stored, threw |-> FALSE]
    ELSE IF stored = Absent
         THEN [stored |-> stored, threw |-> TRUE]   \* readFileSync outside try
         ELSE WriteFileSync(stored,
                            AddAllRuntimeImpl(AddAllDeclaration(stored)),
                            writeOk)

\* ensureModeFunction(mode): the stored file afterwards and whether the call
\* threw; writeOk1 and writeOk2 answer the writes of line 79 and line 98
EnsureModeFunction(stored, mode, writeOk1, writeOk2) ==
    LET content == IF stored = Absent THEN BaseContent ELSE stored
        functionName == ToUpperCase(mode)
    IN  IF ~DeclRegexTest(content, functionName)
        THEN LET added == AddRuntimeImpl(AddDeclaration(content, functionName),
                                         functionName)
                 w == WriteFileSync(stored, added, writeOk1)
             IN  IF w.threw THEN w
                 ELSE EnsureAll(w.stored, added, writeOk2)
        ELSE EnsureAll(stored, content, writeOk2)

(***************************************************************************)
(* The scaffolding: initViteLogging and createDebugFile.                   *)
(***************************************************************************)
ScriptBuild   == <<"b", "u", "i", "l", "d">>
ScriptPreview == <<"p", "r", "e", "v", "i", "e", "w">>
ScriptTest    == <<"t", "e", "s", "t">>
ScriptLint    == <<"l", "i", "n", "t">>
ScriptFormat  == <<"f", "o", "r", "m", "a", "t">>

\* ['build', 'preview', 'test', 'lint', 'format']
ExcludedScripts ==
    {ScriptBuild, ScriptPreview, ScriptTest, ScriptLint, ScriptFormat}

\* [...new Set(list)]: the first occurrence of each element, in order
RECURSIVE Dedupe(_)
Dedupe(list) ==
    IF list = <<>> THEN <<>>
    ELSE LET front == Dedupe(SubSeq(list, 1, Len(list) - 1))
             x == list[Len(list)]
         IN  IF x \in Range(front) THEN front ELSE Append(front, x)

\* list.map(m => m.toUpperCase())
MapUpper(list) == [i \in DOMAIN list |-> ToUpperCase(list[i])]

\* allModes of initViteLogging: scripts is Object.keys(packageJson.scripts)
AllModes(scripts, customModes, includeAll) ==
    LET kept == SelectSeq(scripts, LAMBDA script : script \notin ExcludedScripts)
        merged == Dedupe(MapUpper(kept) \o MapUpper(customModes))
    IN  IF includeAll THEN Append(merged, AllName) ELSE merged

\* lines.join('\n') of token lines
RECURSIVE JoinLines(_)
JoinLines(lines) ==
    IF lines = <<>> THEN <<>>
    ELSE IF Len(lines) = 1 THEN lines[1]
    ELSE lines[1] \o <<NL>> \o JoinLines(Tail(lines))

\* the content createDebugFile writes for modes
DebugFileContent(modes) ==
    LET globalDeclarations == JoinLines([i \in DOMAIN modes |-> DeclText(modes[i])])
        runtimeImplementations == JoinLines([i \in DOMAIN modes |-> StubText(modes[i])])
    IN  <<Comment1, NL, Comment2, NL, NL, DeclareGlobal, NL>>
            \o globalDeclarations
            \o <<NL, CloseBrace, NL, NL, Comment3, NL>>
            \o runtimeImplementations
            \o <<NL, NL>> \o ExportMarker \o <<ModuleComment, NL>>

\* createDebugFile(projectRoot, modes): an existing file is left alone
CreateDebugFile(stored, modes) ==
    IF stored # Absent THEN stored ELSE DebugFileContent(modes)

(***************************************************************************)
(* Inputs.                                                                 *)
(***************************************************************************)
ModeDev      == <<"d", "e", "v">>
ModeDevMixed == <<"D", "e", "v">>
ModeStaging  == <<"s", "t", "a", "g", "i", "n", "g">>
ModeAll      == <<"a", "l", "l">>

DevName     == <<"D", "E", "V">>
StagingName == <<"S", "T", "A", "G", "I", "N", "G">>

\* modes handed to modeBasedLoggingPlugin
Modes == {ModeDev, ModeDevMixed, ModeStaging, ModeAll}

\* what the environment answers to the writes of line 79 and line 98: both
\* succeed, the first fails (the second is not reached), the second fails
WriteOutcomes == {<<TRUE, TRUE>>, <<FALSE, TRUE>>, <<TRUE, FALSE>>}

\* modes of the plugins whose transform is explored text by text
RewriterModes == {ModeDev, ModeDevMixed, ModeStaging}

\* what one keystroke adds to a source text
Fragments == {AllName, DevName, <<"(">>, <<")">>, <<" ">>, <<"x">>}

\* DEV("hello"); DEBUG("hi"); ALL("always");
SampleScenario ==
    <<"D", "E", "V", "(", "\"", "h", "e", "l", "l", "o", "\"", ")", ";", " ",
      "D", "E", "B", "U", "G", "(", "\"", "h", "i", "\"", ")", ";", " ",
      "A", "L", "L", "(", "\"", "a", "l", "w", "a", "y", "s", "\"", ")", ";">>

\* console.log("hello"); ; console.log("always");
SampleScenarioOutput ==
    <<"c", "o", "n", "s", "o", "l", "e", ".", "l", "o", "g", "(", "\"", "h",
      "e", "l", "l", "o", "\"", ")", ";", " ", ";", " ",
      "c", "o", "n", "s", "o", "l", "e", ".", "l", "o", "g", "(", "\"", "a",
      "l", "w", "a", "y", "s", "\"", ")", ";">>

\* DEBUG(f(g(x))); ALL(1)
SampleDeep ==
    <<"D", "E", "B", "U", "G", "(", "f", "(", "g", "(", "x", ")", ")", ")", ";",
      " ", "A", "L", "L", "(", "1", ")">>

\* DEBUG("a)b")
SampleQuoted ==
    <<"D", "E", "B", "U", "G", "(", "\"", "a", ")", "b", "\"", ")">>

\* const x = 1;
SampleNoCalls ==
    <<"c", "o", "n", "s", "t", " ", "x", " ", "=", " ", "1", ";">>

Samples == {SampleScenario, SampleDeep, SampleQuoted, SampleNoCalls}

\* the files of the build that follows the registry calls
BuildSamples == {SampleScenario, SampleNoCalls}

IdApp   == <<"s", "r", "c", "/", "A", "p", "p", ".", "t", "s", "x">>
IdDebug == <<"s", "r", "c", "/", "d", "e", "b", "u", "g", ".", "t", "s">>
IdCss   == <<"s", "r", "c", "/", "a", "p", "p", ".", "c", "s", "s">>
NoId    == <<>>

Ids == {IdApp, IdDebug, IdCss}

\* Object.keys(packageJson.scripts), customModes
ScriptLists ==
    {<<>>, <<ModeDev>>, <<ModeDev, ScriptBuild>>, <<ModeAll>>,
     <<ModeDev, ModeStaging>>, <<ModeAll, ModeDev>>}

CustomModeLists == {<<>>, <<ModeStaging>>, <<ModeDevMixed>>, <<ModeAll>>}

(***************************************************************************)
(* The state machine.                                                      *)
(***************************************************************************)
NoPlugin == [created |-> FALSE, mode |-> <<>>]
NoCall == [op |-> "none", mode |-> <<>>, threw |-> FALSE]

\* the build processes that may run at the same time (vite --mode dev next
\* to vite --mode staging), each calling ensureModeFunction once
Processes == {1, 2}

\* a process that has not called ensureModeFunction.  at is the position in
\* the function, content its local variable, wrote whether the call has
\* written the file, early whether the file was still unwritten by any
\* call when this one read it
NotCalled ==
    [at |-> "idle", mode |-> <<>>, content |-> <<>>,
     wrote |-> FALSE, early |-> FALSE, threw |-> FALSE]

NoInvocations == [p \in Processes |-> NotCalled]

\* nothing has run: no src/debug.ts, no plugin, an empty source file
Init ==
    /\ artifact = Absent
    /\ plugin = NoPlugin
    /\ code = <<>>
    /\ keys = 0
    /\ phase = "edit"
    /\ fileId = NoId
    /\ ret = NoValue
    /\ calls = 0
    /\ last = NoCall
    /\ passed = {}
    /\ invocations = NoInvocations

\* npx vite-logging-init: initViteLogging, of which createDebugFile touches
\* the artifact.  With an existing src/debug.ts createDebugFile returns at
\* line 312 and the run changes nothing here, so the step is taken only
\* while the file is absent.
InitViteLogging(scripts, customModes, includeAll) ==
    /\ artifact = Absent
    /\ artifact' = CreateDebugFile(artifact, AllModes(scripts, customModes, includeAll))
    /\ UNCHANGED <<plugin, code, keys, phase, fileId, ret, calls, last, passed,
                   invocations>>

\* modeBasedLoggingPlugin(mode): ensureModeFunction, then the plugin object;
\* an exception of ensureModeFunction leaves the caller without a plugin
ModeBasedLoggingPlugin(mode, writeOk1, writeOk2) ==
    /\ calls < MaxCalls
    /\ \E r \in {EnsureModeFunction(artifact, mode, writeOk1, writeOk2)} :
           /\ artifact' = r.stored
           /\ plugin' = IF r.threw THEN plugin
                                   ELSE [created |-> TRUE, mode |-> mode]
           /\ last' = [op |-> "plugin", mode |-> mode, threw |-> r.threw]
           /\ passed' = IF r.threw THEN passed
                                   ELSE passed \cup {ToUpperCase(mode)}
    /\ calls' = calls + 1
    /\ UNCHANGED <<code, keys, phase, fileId, ret, invocations>>

\* the source file grows by one fragment
Type(fragment) ==
    /\ phase = "edit"
    /\ keys < MaxKeys
    /\ code' = code \o fragment
    /\ keys' = keys + 1
    /\ UNCHANGED <<artifact, plugin, phase, fileId, ret, calls, last, passed,
                   invocations>>

\* the source file is one of the sample texts
LoadSample(text) ==
    /\ phase = "edit"
    /\ keys = 0
    /\ code' = text
    /\ keys' = MaxKeys
    /\ UNCHANGED <<artifact, plugin, phase, fileId, ret, calls, last, passed,
                   invocations>>

\* the build calls the transform hook of the plugin on the file
TransformHook(id) ==
    /\ plugin.created
    /\ phase = "edit"
    /\ phase' = "done"
    /\ fileId' = id
    /\ ret' = Transform(code, id, plugin.mode)
    /\ UNCHANGED <<artifact, plugin, code, keys, calls, last, passed, invocations>>

Setup ==
    \E scripts \in ScriptLists, customModes \in CustomModeLists, includeAll \in BOOLEAN :
        InitViteLogging(scripts, customModes, includeAll)

Construct ==
    \E mode \in Modes, w \in WriteOutcomes :
        ModeBasedLoggingPlugin(mode, w[1], w[2])

Sample == \E text \in Samples : LoadSample(text)

BuildSample == \E text \in BuildSamples : LoadSample(text)

Typing == \E fragment \in Fragments : Type(fragment)

Hook == \E id \in Ids : TransformHook(id)

\* the registry, from a project without src/debug.ts
Next == Setup \/ Construct \/ BuildSample \/ Hook

Spec == Init /\ [][Next]_vars

\* the rewriter: a plugin has been constructed in a fresh project, and the
\* source file is written fragment by fragment before the hook runs on it
InitRewriter ==
    /\ \E mode \in RewriterModes :
        /\ artifact = EnsureModeFunction(Absent, mode, TRUE, TRUE).stored
        /\ plugin = [created |-> TRUE, mode |-> mode]
        /\ last = [op |-> "plugin", mode |-> mode, threw |-> FALSE]
        /\ passed = {ToUpperCase(mode)}
    /\ code = <<>>
    /\ keys = 0
    /\ phase = "edit"
    /\ fileId = NoId
    /\ ret = NoValue
    /\ calls = 1
    /\ invocations = NoInvocations

NextRewriter == Typing \/ Sample \/ Hook

SpecRewriter == InitRewriter /\ [][NextRewriter]_vars

\* `declare function NAME(message: string): void;` outside any block
AmbientDeclLine(name) ==
    <<Declare, Space1, Function, Space1, Ident(name), OpenParen, Signature, NL>>

RECURSIVE Flatten(_)
Flatten(lines) ==
    IF lines = <<>> THEN <<>> ELSE lines[1] \o Flatten(Tail(lines))

\* a src/debug.ts written or edited by hand: an optional declare global
\* block, declarations outside it, one stub for every declared name, an
\* optional 'export {};'
EditedContent(hasBlock, blockNames, ambientNames, hasExport) ==
    LET stubNames == Dedupe(blockNames \o ambientNames)
    IN  (IF hasBlock
         THEN <<DeclareGlobal, NL>>
                  \o Flatten([i \in DOMAIN blockNames |-> DeclLine(blockNames[i])])
                  \o <<CloseBrace, NL>>
         ELSE <<>>)
            \o Flatten([i \in DOMAIN ambientNames |-> AmbientDeclLine(ambientNames[i])])
            \o Flatten([i \in DOMAIN stubNames |-> RuntimeImpl(stubNames[i])])
            \o (IF hasExport THEN ExportMarker \o <<NL>> ELSE <<>>)

NameLists ==
    {<<>>, <<AllName>>, <<DevName>>, <<DevName, AllName>>, <<AllName, DevName>>,
     <<StagingName>>, <<DevName, StagingName>>}

EditedArtifacts ==
    {EditedContent(TRUE, b, a, e) :
        b \in NameLists, a \in NameLists, e \in BOOLEAN}
    \cup
    {EditedContent(FALSE, <<>>, a, e) : a \in NameLists, e \in BOOLEAN}

\* the registry, from a project whose src/debug.ts exists with any of the
\* contents above
InitExisting ==
    /\ artifact \in EditedArtifacts
    /\ plugin = NoPlugin
    /\ code = <<>>
    /\ keys = 0
    /\ phase = "edit"
    /\ fileId = NoId
    /\ ret = NoValue
    /\ calls = 0
    /\ last = NoCall
    /\ passed = {}
    /\ invocations = NoInvocations

NextExisting == Construct

SpecExisting == InitExisting /\ [][NextExisting]_vars

(***************************************************************************)
(* ensureModeFunction step by step, for build processes that run at the    *)
(* same time.  A step ends at a file operation: what a call computes on    *)
(* its local content between two file operations is seen by nobody else.   *)
(***************************************************************************)
\* the invocation of process p with some fields changed
Moved(p, changes) ==
    [invocations EXCEPT ![p] =
        [f \in DOMAIN NotCalled |->
            IF f \in DOMAIN changes THEN changes[f] ELSE invocations[p][f]]]

\* line 27: process p calls ensureModeFunction(mode); the processes are
\* builds for different Mode Names
CallEnsureModeFunction(p, mode) ==
    /\ invocations[p].at = "idle"
    /\ \A q \in Processes \ {p} :
           invocations[q].at # "idle"
               => ToUpperCase(invocations[q].mode) # ToUpperCase(mode)
    /\ invocations' = Moved(p, [at |-> "read", mode |-> mode])
    /\ UNCHANGED <<artifact, plugin, code, keys, phase, fileId, ret, calls,
                   last, passed>>

\* lines 31-48: readFileSync, or the base content when the file is missing
ReadContent(p) ==
    /\ invocations[p].at = "read"
    /\ invocations' =
           Moved(p, [at |-> "declare",
                     content |-> IF artifact = Absent THEN BaseContent
                                                      ELSE artifact,
                     early |-> \A q \in Processes : ~invocations[q].wrote])
    /\ UNCHANGED <<artifact, plugin, code, keys, phase, fileId, ret, calls,
                   last, passed>>

\* lines 51-81: the declaration and the stub of the mode are added to the
\* local content, which is written over the file (line 79)
DeclareMode(p, writeOk) ==
    /\ invocations[p].at = "declare"
    /\ LET content == invocations[p].content
           functionName == ToUpperCase(invocations[p].mode)
       IN  IF ~DeclRegexTest(content, functionName)
           THEN LET added == AddRuntimeImpl(
                                 AddDeclaration(content, functionName),
                                 functionName)
                    w == WriteFileSync(artifact, added, writeOk)
                IN  /\ artifact' = w.stored
                    /\ invocations' =
                           IF w.threw
                           THEN Moved(p, [at |-> "done", threw |-> TRUE])
                           ELSE Moved(p, [at |-> "checkAll",
                                          content |-> added,
                                          wrote |-> TRUE])
           ELSE /\ writeOk
                /\ artifact' = artifact
                /\ invocations' = Moved(p, [at |-> "checkAll"])
    /\ UNCHANGED <<plugin, code, keys, phase, fileId, ret, calls, last, passed>>

\* lines 84-86: with ALL declared in the local content the call returns;
\* otherwise the file is read again
RereadForAll(p) ==
    /\ invocations[p].at = "checkAll"
    /\ invocations' =
           IF DeclRegexTest(invocations[p].content, AllName)
           THEN Moved(p, [at |-> "done"])
           ELSE IF artifact = Absent
                THEN Moved(p, [at |-> "done", threw |-> TRUE])
                ELSE Moved(p, [at |-> "writeAll", content |-> artifact])
    /\ UNCHANGED <<artifact, plugin, code, keys, phase, fileId, ret, calls,
                   last, passed>>

\* lines 87-98: ALL is added to what was read again, and written (line 98)
WriteAll(p, writeOk) ==
    /\ invocations[p].at = "writeAll"
    /\ LET added == AddAllRuntimeImpl(AddAllDeclaration(invocations[p].content))
           w == WriteFileSync(artifact, added, writeOk)
       IN  /\ artifact' = w.stored
           /\ invocations' =
                  IF w.threw
                  THEN Moved(p, [at |-> "done", threw |-> TRUE])
                  ELSE Moved(p, [at |-> "done", content |-> added,
                                 wrote |-> TRUE])
    /\ UNCHANGED <<plugin, code, keys, phase, fileId, ret, calls, last, passed>>

\* src/debug.ts before the builds start: missing, or as createDebugFile
\* wrote it
StartArtifacts ==
    {Absent} \cup
    {DebugFileContent(AllModes(scripts, <<>>, includeAll)) :
        scripts \in {<<>>, <<ModeDev>>}, includeAll \in BOOLEAN}

InitConcurrent ==
    /\ artifact \in StartArtifacts
    /\ plugin = NoPlugin
    /\ code = <<>>
    /\ keys = 0
    /\ phase = "edit"
    /\ fileId = NoId
    /\ ret = NoValue
    /\ calls = 0
    /\ last = NoCall
    /\ passed = {}
    /\ invocations = NoInvocations

Call == \E p \in Processes, mode \in Modes : CallEnsureModeFunction(p, mode)

Read == \E p \in Processes : ReadContent(p)

Declaring == \E p \in Processes, writeOk \in BOOLEAN : DeclareMode(p, writeOk)

Reread == \E p \in Processes : RereadForAll(p)

WritingAll == \E p \in Processes, writeOk \in BOOLEAN : WriteAll(p, writeOk)

NextConcurrent == Call \/ Read \/ Declaring \/ Reread \/ WritingAll

\* two build processes registering their modes with no order between their
\* file operations
SpecConcurrent == InitConcurrent /\ [][NextConcurrent]_vars

(***************************************************************************)
(* Observations on the artifact.                                           *)
(***************************************************************************)
\* token i is the name of a declaration `function NAME(`
IsDeclNameAt(content, i) ==
    /\ content[i].k = "id"
    /\ \E f \in 1..(i - 2) :
           /\ content[f] = Function
           /\ \A k \in (f + 1)..(i - 1) : IsWhite(content[k])
    /\ \E p \in (i + 1)..Len(content) :
           /\ content[p] = OpenParen
           /\ \A k \in (i + 1)..(p - 1) : IsWhite(content[k])

\* token i lies inside a declare global block
InBlock(content, i) ==
    \E o \in 1..(i - 1) :
        /\ content[o] = DeclareGlobal
        /\ \A k \in (o + 1)..(i - 1) : content[k] # CloseBrace

DeclIndices(content) ==
    IF content = Absent THEN {}
    ELSE {i \in DOMAIN content : IsDeclNameAt(content, i)}

\* the Mode Names the artifact declares, upper-cased
Declared(content) == {ToUpperCase(content[i].n) : i \in DeclIndices(content)}

\* the Mode Names declared inside a declare global block
BlockDeclared(content) ==
    {ToUpperCase(content[i].n) :
        i \in {j \in DeclIndices(content) : InBlock(content, j)}}

\* indices of the names of the runtime stubs `(globalThis as any).NAME = `
StubIndices(content) ==
    IF content = Absent THEN {}
    ELSE {i \in DOMAIN content :
             /\ i > 1
             /\ i < Len(content)
             /\ content[i].k = "id"
             /\ content[i - 1] = GlobalThis
             /\ content[i + 1] = NoOpBody}

StubNames(content) == {content[i].n : i \in StubIndices(content)}

StubCount(content, name) ==
    Cardinality({i \in StubIndices(content) : content[i].n = name})

\* the step is a call of modeBasedLoggingPlugin
IsCall == calls' = calls + 1

(***************************************************************************)
(* Observations on a transform run.                                        *)
(***************************************************************************)
\* the hook has run on a file it processes
Processed == phase = "done" /\ IsProcessed(fileId)

\* the text of the file after the hook: the returned code, or the source
\* itself when the hook returned nothing
Output == IF ret = NoValue THEN code ELSE ret.code

\* the Mode Name the plugin keeps
ActiveName == ToUpperCase(plugin.mode)

\* every index of s at which a Call Site starts, nested ones included
CallSites(s) == {i \in DOMAIN s : AllModesRegexAt(s, i).ok}

\* what the rewriting rule asks for in place of call site m
Expected(m) ==
    IF m.modeName = AllName \/ m.modeName = ActiveName
    THEN ConsoleLogOpen \o m.args \o <<")">>
    ELSE <<>>

\* growth of the text caused by the first k matches of ms
RECURSIVE Growth(_, _)
Growth(ms, k) ==
    IF k = 0 THEN 0
    ELSE Growth(ms, k - 1) + Len(Expected(ms[k])) + ms[k].from

\* shrinkage of the text caused by the first k matches of ms
RECURSIVE Shrinkage(_, _)
Shrinkage(ms, k) ==
    IF k = 0 THEN 0
    ELSE Shrinkage(ms, k - 1) + ms[k].to + 1

\* number of matches of ms that end before index i
Before(ms, i) == Cardinality({k \in DOMAIN ms : ms[k].to < i})

\* index in the output of the source character at i, which lies outside
\* every match; Naturals has no negative numbers, so the sum is ordered
OutputIndex(ms, i) ==
    (i + Growth(ms, Before(ms, i))) - Shrinkage(ms, Before(ms, i))

\* index in the output at which the replacement of match k starts
ReplacementIndex(ms, k) ==
    (ms[k].from + Growth(ms, k - 1)) - Shrinkage(ms, k - 1)

InsideMatch(ms, i) == \E k \in DOMAIN ms : ms[k].from <= i /\ i <= ms[k].to

\* call site i of the source was replaced by text in the output
ReplacedBy(i, text) ==
    LET ms == Matches(code, 1)
    IN  \E k \in DOMAIN ms :
            /\ ms[k].from = i
            /\ LET at == ReplacementIndex(ms, k)
               IN  /\ at + Len(text) - 1 <= Len(Output)
                   /\ SubSeq(Output, at, at + Len(text) - 1) = text

(***************************************************************************)
(* Properties of the Call Rewriter, checked under SpecRewriter.            *)
(***************************************************************************)
\* C1: every Call Site NAME(args) of the processed text whose NAME is not ALL
\* is replaced where it stands: by console.log(args) with the same argument
\* text when NAME is the active mode upper-cased, by nothing otherwise.
C1_EveryCallSiteRewrittenOrDeleted ==
    Processed =>
        \A i \in CallSites(code) :
            LET m == AllModesRegexAt(code, i)
            IN  m.modeName # AllName =>
                    ReplacedBy(i, IF m.modeName = ActiveName
                                  THEN ConsoleLogOpen \o m.args \o <<")">>
                                  ELSE <<>>)

\* C2: every Call Site whose NAME is ALL is replaced by console.log(args)
\* with the same argument text, under every active mode and wherever the
\* call stands in the text.
C2_EveryAllCallKept ==
    Processed =>
        \A i \in CallSites(code) :
            LET m == AllModesRegexAt(code, i)
            IN  m.modeName = AllName =>
                    ReplacedBy(i, ConsoleLogOpen \o m.args \o <<")">>)

\* an upper-case letter, then upper-case letters, digits or underscores, then
\* "(" with nothing in between
HasNameThenParen(s) ==
    \E i \in DOMAIN s :
        /\ IsUpper(s[i])
        /\ LET nameEnd == NameRunEnd(s, i + 1)
           IN  nameEnd <= Len(s) /\ s[nameEnd] = "("

\* the same, with any white space allowed between the name and "("
HasNameSpaceParen(s) ==
    \E i \in DOMAIN s :
        /\ IsUpper(s[i])
        /\ LET open == SpaceRunEnd(s, NameRunEnd(s, i + 1))
           IN  open <= Len(s) /\ s[open] = "("

C8_OnlyCallSitesChange ==
    Processed =>
        LET ms == Matches(code, 1)
        IN  /\ Len(Output) + Shrinkage(ms, Len(ms)) = Len(code) + Growth(ms, Len(ms))
            /\ \A i \in DOMAIN code :
                   ~InsideMatch(ms, i) =>
                       /\ OutputIndex(ms, i) \in DOMAIN Output
                       /\ Output[OutputIndex(ms, i)] = code[i]
            /\ (code = SampleScenario /\ ActiveName = DevName) =>
                   ret = [code |-> SampleScenarioOutput]

\* C8 witness: the scenario text was transformed under mode dev, and the
\* terminator and the blank around the deleted DEBUG call are in the output.
C8_Witness ==
    /\ Processed
    /\ code = SampleScenario
    /\ plugin.mode = ModeDev
    /\ ret = [code |-> SampleScenarioOutput]

\* where the parenthesis opened before index j closes when depth is counted
\* exactly, and how deep the text in between nests
RECURSIVE Nesting(_, _, _, _)
Nesting(s, j, depth, deepest) ==
    IF j > Len(s) THEN [closed |-> FALSE, at |-> 0, deepest |-> deepest]
    ELSE IF s[j] = "("
         THEN Nesting(s, j + 1, depth + 1,
                      IF depth + 1 > deepest THEN depth + 1 ELSE deepest)
    ELSE IF s[j] = ")"
         THEN IF depth = 1
              THEN [closed |-> TRUE, at |-> j, deepest |-> deepest]
              ELSE Nesting(s, j + 1, depth - 1, deepest)
    ELSE Nesting(s, j + 1, depth, deepest)

\* a Mode Name call at i whose argument text is unbalanced or nests more
\* than one level of parentheses
MalformedCallAt(s, i) ==
    /\ IsUpper(s[i])
    /\ i = 1 \/ ~IsWordChar(s[i - 1])
    /\ LET open == SpaceRunEnd(s, NameRunEnd(s, i + 1))
       IN  /\ open <= Len(s)
           /\ s[open] = "("
           /\ LET n == Nesting(s, open + 1, 1, 1)
              IN  ~n.closed \/ n.deepest > 2

\* C9: a Mode Name call whose argument text is unbalanced or nested more
\* than one level deep is skipped: no match of the scan starts at it, and
\* its characters are in the output as they were.
C9_MalformedCallUntouched ==
    Processed =>
        \A i \in DOMAIN code :
            MalformedCallAt(code, i) =>
                LET ms == Matches(code, 1)
                IN  \A k \in DOMAIN ms : ms[k].from # i

(***************************************************************************)
(* Properties of the Mode Registry.                                        *)
(***************************************************************************)
\* C4: ensureModeFunction is idempotent: a call for the mode of the call
\* just before it (both returned) leaves the artifact as that call left it,
\* whatever src/debug.ts held at the start.  Checked under SpecExisting.
C4_SecondCallChangesNothing ==
    [][(IsCall /\ last.op = "plugin" /\ ~last.threw
            /\ ~last'.threw /\ last'.mode = last.mode)
          => artifact' = artifact]_vars

\* C5: the registry only grows: once a call has returned, the stored
\* artifact declares every Mode Name passed to a call that returned and ALL,
\* and no call removes a declaration or a stub that was there.
C5_RegistryOnlyGrows ==
    /\ [](passed # {} => (passed \cup {AllName}) \subseteq Declared(artifact))
    /\ [][IsCall =>
            /\ Declared(artifact) \subseteq Declared(artifact')
            /\ \A n \in StubNames(artifact) :
                   StubCount(artifact', n) >= StubCount(artifact, n)]_vars

\* every declared Mode Name has exactly one stub, every stub a declaration,
\* and ALL has both
ArtifactConsistent(content) ==
    /\ \A n \in BlockDeclared(content) : StubCount(content, n) = 1
    /\ \A n \in StubNames(content) : n \in BlockDeclared(content)
    /\ AllName \in BlockDeclared(content)
    /\ AllName \in StubNames(content)

\* C6: starting without src/debug.ts or from the file createDebugFile wrote,
\* the artifact left by a call of ensureModeFunction that returned satisfies
\* the declarations-artifact invariant.
C6_ArtifactInvariant ==
    (last.op = "plugin" /\ ~last.threw /\ artifact # Absent)
        => ArtifactConsistent(artifact)

\* C7: a call in which a write fails throws out of modeBasedLoggingPlugin,
\* returns no plugin and leaves the stored artifact as it was before the
\* call; a missing file alone never makes the call throw.
C7_FailedWriteLeavesArtifact ==
    [][IsCall =>
          /\ last'.threw => (artifact' = artifact /\ plugin' = plugin)
          /\ (artifact = Absent /\ ToUpperCase(last'.mode) = AllName)
                 => ~last'.threw]_vars

\* C10: one call of ensureModeFunction on an existing artifact without a
\* declaration of ALL leaves ALL declared inside the declare global block
\* and with exactly one stub.  Checked under SpecExisting.
C10_AllRestored ==
    [][(IsCall /\ ~last'.threw /\ artifact # Absent
            /\ AllName \notin Declared(artifact))
          => /\ AllName \in BlockDeclared(artifact')
             /\ StubCount(artifact', AllName) = 1]_vars

(***************************************************************************)
(* Properties of the plugin as a whole, checked under Spec.                *)
(***************************************************************************)
\* C11: the registry step precedes rewriting: whenever the transform of a
\* plugin has processed a text, src/debug.ts exists and declares both the
\* plugin's mode upper-cased and ALL, also when the file was absent at
\* start-up.
C11_RegistryPrecedesRewriting ==
    Processed =>
        /\ artifact # Absent
        /\ ActiveName \in Declared(artifact)
        /\ AllName \in Declared(artifact)

\* C12: the change flag is exact: on a processed text the hook returns
\* rewritten code, different from the source, if and only if the scan
\* substituted at least one call site, and returns no value exactly when no
\* call site matched.  Checked under SpecRewriter.
C12_ChangeFlagExact ==
    Processed =>
        /\ (ret = NoValue) <=> (Matches(code, 1) = <<>>)
        /\ ret # NoValue => ret.code # code

\* C12 witness: a text in which the scan deleted one call and rewrote
\* another came back as rewritten code.
C12_Witness ==
    /\ Processed
    /\ LET ms == Matches(code, 1)
       IN  /\ \E k \in DOMAIN ms : Expected(ms[k]) = <<>>
           /\ \E k \in DOMAIN ms : Expected(ms[k]) # <<>>
    /\ ret # NoValue
    /\ ret.code # code

(***************************************************************************)
(* Properties of overlapping registry calls, checked under SpecConcurrent. *)
(***************************************************************************)
\* every process has returned from ensureModeFunction
AllReturned ==
    \A p \in Processes : invocations[p].at = "done" /\ ~invocations[p].threw

\* every call read src/debug.ts before any call wrote it
ReadBeforeAnyWrite == \A p \in Processes : invocations[p].early

\* C13: when two ensureModeFunction calls for different Mode Names have
\* both read src/debug.ts before either wrote it, the artifact stored after
\* both have returned declares both Mode Names and ALL.
C13_InterleavedKeepsBoth ==
    (AllReturned /\ ReadBeforeAnyWrite) =>
        /\ \A p \in Processes :
               ToUpperCase(invocations[p].mode) \in Declared(artifact)
        /\ AllName \in Declared(artifact)

(***************************************************************************)
(* Properties of the scaffolding, checked under Spec.                      *)
(***************************************************************************)
\* number of declarations of name in the artifact
DeclCount(content, name) ==
    Cardinality({i \in DeclIndices(content) : ToUpperCase(content[i].n) = name})

\* the step is a run of initViteLogging that created src/debug.ts
IsSetup == artifact = Absent /\ artifact' # Absent /\ calls' = calls

\* C14: the mode list initViteLogging hands to createDebugFile holds each
\* Mode Name at most once: the artifact it creates declares every Mode Name
\* exactly once and has exactly one stub for it, also when a script or a
\* custom mode is named 'all' and includeAll is true.
C14_EachModeOnce ==
    [][IsSetup =>
          \A n \in Declared(artifact') \cup StubNames(artifact') :
              /\ DeclCount(artifact', n) = 1
              /\ StubCount(artifact', n) = 1]_vars

====
